---- MODULE Spec2Model ----
(***************************************************************************)
(* Continuous-time birth-death tree simulation of DendroPy                 *)
(* (dendropy/model/birthdeath.py, birth_death_tree).                       *)
(*                                                                         *)
(* One call of birth_death_tree is one behaviour: the keyword arguments    *)
(* are drawn in Init, Call validates them and builds the initial state,    *)
(* every iteration of the main loop is one step, and the code after the    *)
(* loop (GSA finalization, pruning of extinct tips, suppression of         *)
(* unifurcations, assignment of taxa) follows in program order, sequenced  *)
(* by pc.                                                                  *)
(*                                                                         *)
(* Time is measured in integer units; a waiting time is a positive number  *)
(* of units.  Nodes are numbered in order of creation; the numbers of      *)
(* nodes no live reference reaches are reused.                             *)
(***************************************************************************)
EXTENDS Integers, FiniteSets, Sequences, TLC

\* ------------------------------------------------------------------ bounds
MaxNodes == 7       \* nodes a tree may hold (births stop being drawn beyond)
MaxTime == 4        \* cap on total_time and on every edge length
MaxWait == 2        \* largest waiting time drawn
MaxTips == 3        \* largest tip target / gsa_ntax passed to the call
Grid == 4           \* a uniform draw is one of 0/Grid, ..., (Grid-1)/Grid
MaxCoda == 2        \* generations the coda of the discrete simulator may count
MaxAges == 3        \* internal node ages passed to the fitter
MaxAge == 2         \* largest internal node age

\* Python's None, for the numeric keyword arguments and for edge lengths.
None == -1

Ids == 1..MaxNodes

VARIABLES
    cfg,            \* the arguments of the call
    pc,             \* position in birth_death_tree
    err,            \* the exception the call ended with ("none": no exception)
    why,            \* which check raised it
    seed,           \* tree.seed_node (0: no tree yet)
    nodes,          \* the nodes of the tree
    parent,         \* nd._parent_node (0: none)
    elen,           \* nd.edge.length
    attr,           \* the extinction attribute of each node
    brate, drate,   \* nd.birth_rate, nd.death_rate (None: attribute not set)
    extant_tips, extinct_tips,
    initial_extant_tip_set, initial_extinct_tip_set,
    total_time,
    targetted_time_slices,
    nextId,         \* number of the next node created
    births,         \* birth events of the current attempt
    restarted,      \* a restart after total extinction has happened
    event,          \* what the last pass through the loop did
    drew,           \* the RNG has been drawn from
    gsa_r,          \* the scaled uniform draw of the GSA finalization
    selected,       \* index of the selected slice (0: none)
    todo,           \* extinct tips still to be pruned after the loop
    taxon,          \* nd.taxon (NoTaxon: none)
    namespace,      \* the labels of the taxa of taxon_namespace, in order
    leaf_nodes,     \* discrete simulator: leaves of this generation still to visit
    num_gens,       \* discrete simulator: the generation counter
    gens_to_add,    \* discrete simulator: generations counted by the coda
    internal_node_ages, \* fitter: the ages the estimate is computed from
    smax,           \* fitter: the estimated birth rate, <<numerator, denominator>>
    lh              \* fitter: the log-likelihood

vars == <<cfg, pc, err, why, seed, nodes, parent, elen, attr, brate, drate,
          extant_tips, extinct_tips, initial_extant_tip_set,
          initial_extinct_tip_set, total_time, targetted_time_slices, nextId,
          births, restarted, event, drew, gsa_r, selected, todo, taxon,
          namespace, leaf_nodes, num_gens, gens_to_add, internal_node_ages,
          smax, lh>>

\* ------------------------------------------------------------- arguments
\* The "tree" keyword: no tree, a single-node tree, or a cherry (root 1 with
\* leaves 2 and 3); flags gives the extinction attribute of each leaf.
AttrValues == {"absent", "True", "False"}

\* A taxon is known by its label: a prefix and a number ("T2" is <<"T", 2>>).
NoTaxon == <<"none", 0>>

\* The taxa a namespace passed by the caller may hold already.
Namespaces ==
    {<<>>, <<<<"A", 1>>>>, <<<<"T", 2>>>>, <<<<"A", 1>>, <<"X", 1>>>>}

TreeArgs ==
    {[kind |-> "none", flags |-> <<>>]}
    \cup {[kind |-> "single", flags |-> <<f>>] : f \in AttrValues}
    \cup {[kind |-> "cherry", flags |-> <<f, g>>] : f \in AttrValues, g \in AttrValues}

Defaults ==
    [birth_rate |-> 1, death_rate |-> 0,
     num_extant_tips |-> None, num_extinct_tips |-> None,
     num_total_tips |-> None, max_time |-> None, gsa_ntax |-> None,
     is_add_extinct_attr |-> TRUE, is_retain_extinct_tips |-> FALSE,
     repeat_until_success |-> TRUE,
     is_assign_extant_taxa |-> TRUE, is_assign_extinct_taxa |-> TRUE,
     tree |-> [kind |-> "none", flags |-> <<>>],
     taxon_namespace |-> FALSE, namespace |-> <<>>,
     ignore_unrecognized_keyword_arguments |-> FALSE]

\* Calls on a new tree: every combination of termination conditions.
NewTreeCalls ==
    {[Defaults EXCEPT !.birth_rate = b, !.death_rate = d,
                      !.num_extant_tips = n, !.num_extinct_tips = x,
                      !.num_total_tips = t, !.max_time = m, !.gsa_ntax = g,
                      !.is_add_extinct_attr = a,
                      !.is_retain_extinct_tips = k, !.repeat_until_success = r] :
        b \in 0..1, d \in 0..1,
        n \in {None} \cup 1..MaxTips, x \in {None, 1}, t \in {None, 2},
        m \in {None, 2}, g \in {None} \cup 1..MaxTips,
        a \in BOOLEAN, k \in BOOLEAN, r \in BOOLEAN}

\* Calls that pass "tree" and/or "taxon_namespace".
KeywordCalls ==
    {[Defaults EXCEPT !.death_rate = d, !.num_extant_tips = n, !.max_time = m,
                      !.is_add_extinct_attr = a, !.tree = tr,
                      !.taxon_namespace = ns,
                      !.ignore_unrecognized_keyword_arguments = i] :
        d \in 0..1, n \in {None, 3}, m \in {None, 2}, a \in BOOLEAN,
        tr \in TreeArgs, ns \in BOOLEAN, i \in BOOLEAN}

\* Calls that vary the assignment of taxa, on a namespace of the caller.
TaxonCalls ==
    {[Defaults EXCEPT !.death_rate = d, !.num_extant_tips = n,
                      !.is_retain_extinct_tips = k,
                      !.is_assign_extant_taxa = e, !.is_assign_extinct_taxa = x,
                      !.taxon_namespace = TRUE, !.namespace = c,
                      !.ignore_unrecognized_keyword_arguments = TRUE] :
        d \in 0..1, n \in {2, 3}, k \in BOOLEAN, e \in BOOLEAN, x \in BOOLEAN,
        c \in Namespaces}

Calls == NewTreeCalls \cup KeywordCalls \cup TaxonCalls

\* ------------------------------------------------------------ tree helpers
Max(S) == CHOOSE x \in S : \A y \in S : y <= x

Children(nd) == {c \in nodes : parent[c] = nd}

Leaves == {nd \in nodes : Children(nd) = {}}

RECURSIVE Ancestors(_)
Ancestors(nd) ==
    IF parent[nd] = 0 THEN {} ELSE {parent[nd]} \cup Ancestors(parent[nd])

\* nd.preorder_iter() without nd itself
Descendants(nd) == {d \in nodes : nd \in Ancestors(d)}

RECURSIVE SumOver(_, _)
SumOver(f, S) ==
    IF S = {} THEN 0
    ELSE LET x == CHOOSE y \in S : TRUE IN f[x] + SumOver(f, S \ {x})

\* sum of the edge lengths from the root to nd, root edge included
PathLength(nd) == SumOver([n \in Ids |-> IF elen[n] = None THEN 0 ELSE elen[n]],
                          {nd} \cup Ancestors(nd))

\* ------------------------------------------------------------ validation
HasTerminationCondition(c) ==
    \/ c.num_extant_tips # None
    \/ c.num_extinct_tips # None
    \/ c.num_total_tips # None
    \/ c.max_time # None

\* kwargs after the pops: "tree" and "taxon_namespace" are read with get
UnpoppedKwargs(c) ==
    (IF c.tree.kind # "none" THEN {"tree"} ELSE {})
    \cup (IF c.taxon_namespace THEN {"taxon_namespace"} ELSE {})

terminate_at_full_tree(c) == c.gsa_ntax = None

\* The check that rejects the call, in the order of the code ("ok": none).
ConfigurationError(c) ==
    IF ~HasTerminationCondition(c) THEN "no_termination_condition"
    ELSE IF UnpoppedKwargs(c) # {} /\ ~c.ignore_unrecognized_keyword_arguments
        THEN "unrecognized_keyword_arguments"
    ELSE IF c.gsa_ntax = None THEN "ok"
    ELSE IF c.num_extant_tips = None THEN "gsa_without_num_extant_tips"
    ELSE IF c.num_extinct_tips # None THEN "gsa_with_num_extinct_tips"
    ELSE IF c.num_total_tips # None THEN "gsa_with_num_total_tips"
    ELSE IF c.gsa_ntax < c.num_extant_tips THEN "gsa_less_than_num_extant_tips"
    ELSE "ok"

\* ---------------------------------------------------------------- Init
Init ==
    /\ cfg \in Calls
    /\ pc = "call"
    /\ err = "none"
    /\ why = "none"
    /\ seed = 0
    /\ nodes = {}
    /\ parent = [n \in Ids |-> 0]
    /\ elen = [n \in Ids |-> None]
    /\ attr = [n \in Ids |-> "absent"]
    /\ brate = [n \in Ids |-> None]
    /\ drate = [n \in Ids |-> None]
    /\ extant_tips = {}
    /\ extinct_tips = {}
    /\ initial_extant_tip_set = {}
    /\ initial_extinct_tip_set = {}
    /\ total_time = 0
    /\ targetted_time_slices = <<>>
    /\ nextId = 1
    /\ births = 0
    /\ restarted = FALSE
    /\ event = "none"
    /\ drew = FALSE
    /\ gsa_r = 0
    /\ selected = 0
    /\ todo = {}
    /\ taxon = [n \in Ids |-> NoTaxon]
    /\ namespace = <<>>
    /\ leaf_nodes = {}
    /\ num_gens = 0
    /\ gens_to_add = 0
    /\ internal_node_ages = <<>>
    /\ smax = <<0, 0>>
    /\ lh = "none"

\* the simulators compute no estimate
FitUnchanged == UNCHANGED <<internal_node_ages, smax, lh>>

\* birth_death_tree has no generation counter
DiscreteUnchanged == UNCHANGED <<leaf_nodes, num_gens, gens_to_add>>

TreeUnchanged == UNCHANGED <<seed, nodes, parent, elen, attr, brate, drate>>
SetsUnchanged == UNCHANGED <<extant_tips, extinct_tips>>
InitialUnchanged == UNCHANGED <<initial_extant_tip_set, initial_extinct_tip_set>>
GsaUnchanged == UNCHANGED <<gsa_r, selected>>
TaxaUnchanged == UNCHANGED <<taxon, namespace>>

\* ------------------------------------------------- rejecting the arguments
RaiseValueError ==
    /\ pc = "call"
    /\ ConfigurationError(cfg) # "ok"
    /\ pc' = "raised"
    /\ err' = "ValueError"
    /\ why' = ConfigurationError(cfg)
    /\ TreeUnchanged /\ SetsUnchanged /\ InitialUnchanged /\ GsaUnchanged
    /\ TaxaUnchanged
    /\ UNCHANGED <<cfg, total_time, targetted_time_slices, nextId, births,
                   restarted, event, drew, todo>>
    /\ DiscreteUnchanged
    /\ FitUnchanged

\* -------------------------------------------------------- a new tree
NewTree ==
    /\ pc = "call"
    /\ ConfigurationError(cfg) = "ok"
    /\ cfg.tree.kind = "none"
    /\ pc' = "loop"
    /\ seed' = 1
    /\ nodes' = {1}
    /\ elen' = [elen EXCEPT ![1] = 0]
    /\ brate' = [brate EXCEPT ![1] = cfg.birth_rate]
    /\ drate' = [drate EXCEPT ![1] = cfg.death_rate]
    /\ attr' = IF cfg.is_add_extinct_attr THEN [attr EXCEPT ![1] = "False"] ELSE attr
    /\ extant_tips' = {1}
    /\ extinct_tips' = {}
    /\ initial_extant_tip_set' = {1}
    /\ initial_extinct_tip_set' = {}
    /\ nextId' = 2
    /\ namespace' = cfg.namespace
    /\ GsaUnchanged
    /\ UNCHANGED <<cfg, err, why, parent, total_time, targetted_time_slices,
                   births, restarted, event, drew, todo, taxon>>
    /\ DiscreteUnchanged
    /\ FitUnchanged

\* ------------------------------------------------ a tree passed by the caller
GivenNodes(tr) == IF tr.kind = "single" THEN {1} ELSE {1, 2, 3}

GivenParent(tr) == [n \in Ids |-> IF tr.kind = "cherry" /\ n \in {2, 3} THEN 1 ELSE 0]

GivenLeaves(tr) == IF tr.kind = "single" THEN {1} ELSE {2, 3}

\* the extinction attribute the caller's leaf carries
GivenFlag(tr, nd) == IF tr.kind = "single" THEN tr.flags[1] ELSE tr.flags[nd - 1]

\* getattr(nd, extinct_attr_name, False)
Truthy(flag) == flag = "True"

\* "for nd in tree" visits the nodes in preorder, which is their numbering;
\* the leaf whose attribute is not true reaches extinct_tips.append(nd), and
\* extinct_tips is a set.
AppendLeaves(tr) == {nd \in GivenLeaves(tr) : ~Truthy(GivenFlag(tr, nd))}

VisitedBefore(tr, stop) == {nd \in GivenNodes(tr) : nd < stop}

GivenAttr(tr, visited) ==
    [n \in Ids |->
        IF n \in visited /\ cfg.is_add_extinct_attr
        THEN (IF n \in GivenLeaves(tr) THEN "False" ELSE "None")
        ELSE IF n \in GivenLeaves(tr) THEN GivenFlag(tr, n) ELSE "absent"]

GivenTree ==
    /\ pc = "call"
    /\ ConfigurationError(cfg) = "ok"
    /\ cfg.tree.kind # "none"
    /\ LET tr == cfg.tree
           bad == AppendLeaves(tr)
           stop == IF bad = {} THEN MaxNodes + 1 ELSE CHOOSE b \in bad : \A y \in bad : b <= y
           visited == VisitedBefore(tr, stop)
       IN /\ seed' = 1
          /\ nodes' = GivenNodes(tr)
          /\ parent' = GivenParent(tr)
          /\ elen' = [n \in Ids |-> IF n \in GivenLeaves(tr) /\ tr.kind = "cherry" THEN 1 ELSE None]
          /\ attr' = GivenAttr(tr, visited)
          /\ extant_tips' = visited \cap GivenLeaves(tr)
          /\ extinct_tips' = {}
          /\ nextId' = Max(GivenNodes(tr)) + 1
          /\ IF bad = {}
             THEN /\ pc' = "loop"
                  /\ err' = "none"
                  /\ why' = "none"
                  /\ initial_extant_tip_set' = GivenLeaves(tr)
                  /\ initial_extinct_tip_set' = {}
             ELSE /\ pc' = "raised"
                  /\ err' = "AttributeError"
                  /\ why' = "set_has_no_append"
                  /\ InitialUnchanged
    /\ namespace' = cfg.namespace
    /\ GsaUnchanged
    /\ UNCHANGED <<cfg, brate, drate, total_time, targetted_time_slices,
                   births, restarted, event, drew, todo, taxon>>
    /\ DiscreteUnchanged
    /\ FitUnchanged

\* ------------------------------------------------------------ the main loop
Card(S) == Cardinality(S)

\* the termination check with every ">=" written ">"
ShouldBreakStrict ==
    IF cfg.gsa_ntax = None
    THEN \/ cfg.num_extant_tips # None /\ Card(extant_tips) > cfg.num_extant_tips
         \/ cfg.num_extinct_tips # None /\ Card(extinct_tips) > cfg.num_extinct_tips
         \/ cfg.num_total_tips # None
              /\ Card(extant_tips) + Card(extinct_tips) > cfg.num_total_tips
         \/ cfg.max_time # None /\ total_time > cfg.max_time
    ELSE Card(extant_tips) > cfg.gsa_ntax

\* lines 232-242: the termination check at the top of the loop
ShouldBreak ==
    IF cfg.gsa_ntax = None
    THEN \/ cfg.num_extant_tips # None /\ Card(extant_tips) >= cfg.num_extant_tips
         \/ cfg.num_extinct_tips # None /\ Card(extinct_tips) >= cfg.num_extinct_tips
         \/ cfg.num_total_tips # None
              /\ Card(extant_tips) + Card(extinct_tips) >= cfg.num_total_tips
         \/ cfg.max_time # None /\ total_time >= cfg.max_time
    ELSE Card(extant_tips) >= cfg.gsa_ntax

\* lines 248-252: rates default lazily to the rates of the call
BirthRate(nd) == IF brate[nd] = None THEN cfg.birth_rate ELSE brate[nd]
DeathRate(nd) == IF drate[nd] = None THEN cfg.death_rate ELSE drate[nd]

RatesAfterDefault(rate, base) ==
    [n \in Ids |-> IF n \in extant_tips /\ rate[n] = None THEN base ELSE rate[n]]

rate_of_any_event ==
    SumOver([n \in Ids |-> BirthRate(n) + DeathRate(n)], extant_tips)

\* rng.expovariate: a positive waiting time
WaitingTimes == 1..MaxWait

\* a draw that can differ from its mean
GaussOffMean == {0, 1}

\* rng.gauss(0, sd) with sd = 0
Gauss == {0}

\* lines 264-266
RecordsSlice ==
    /\ cfg.gsa_ntax # None
    /\ Card(extant_tips) = cfg.num_extant_tips

SlicesAfter(w) ==
    IF RecordsSlice
    THEN Append(targetted_time_slices,
                [dwell |-> w, snap |-> [n \in extant_tips |-> elen[n]]])
    ELSE targetted_time_slices

\* a break after every recording
BreaksAfterEveryRecording == RecordsSlice

\* lines 272-273
BreaksAfterRecording == RecordsSlice /\ terminate_at_full_tree(cfg)

\* the waiting time not added to a length that is set
AddLengthToNoneOnly(l, w) == IF l = None THEN w ELSE l

\* lines 277-280
AddLength(l, w) == IF l = None THEN w ELSE l + w

\* the waiting time added to every node of the tree, not to the extant tips
LengthsAfterEveryNode(w) ==
    [n \in Ids |-> IF n \in nodes THEN AddLength(elen[n], w) ELSE elen[n]]

LengthsAfter(w) ==
    [n \in Ids |-> IF n \in extant_tips THEN AddLength(elen[n], w) ELSE elen[n]]

\* line 284 without "max_time is None or"
EventRealisedUnderMaxTimeOnly(w) ==
    cfg.max_time # None /\ total_time + w <= cfg.max_time

\* line 284
EventRealised(w) == cfg.max_time = None \/ total_time + w <= cfg.max_time

\* the model's cap on elapsed time
WithinTime(w) ==
    /\ total_time + w <= MaxTime
    /\ \A n \in extant_tips : AddLength(elen[n], w) <= MaxTime

AfterLoop == IF cfg.gsa_ntax # None THEN "gsa" ELSE "post"

ToPrune(extinct) == IF cfg.is_retain_extinct_tips THEN {} ELSE extinct

\* break at the top of the loop, or right after recording a slice
LoopExit ==
    /\ pc = "loop"
    /\ \E w \in WaitingTimes :
        /\ ShouldBreak \/ (rate_of_any_event > 0 /\ BreaksAfterRecording)
        /\ IF ShouldBreak
           THEN UNCHANGED <<targetted_time_slices, brate, drate, drew>>
           ELSE /\ targetted_time_slices' = SlicesAfter(w)
                /\ brate' = RatesAfterDefault(brate, cfg.birth_rate)
                /\ drate' = RatesAfterDefault(drate, cfg.death_rate)
                /\ drew' = TRUE
    /\ pc' = AfterLoop
    /\ todo' = IF cfg.gsa_ntax # None THEN {} ELSE ToPrune(extinct_tips)
    /\ event' = "break"
    /\ SetsUnchanged /\ InitialUnchanged /\ GsaUnchanged /\ TaxaUnchanged
    /\ UNCHANGED <<cfg, err, why, seed, nodes, parent, elen, attr, total_time,
                   nextId, births, restarted>>
    /\ DiscreteUnchanged
    /\ FitUnchanged

\* rng.expovariate(0) divides by zero
ZeroRate ==
    /\ pc = "loop"
    /\ ~ShouldBreak
    /\ rate_of_any_event = 0
    /\ pc' = "raised"
    /\ err' = "ZeroDivisionError"
    /\ why' = "expovariate"
    /\ brate' = RatesAfterDefault(brate, cfg.birth_rate)
    /\ drate' = RatesAfterDefault(drate, cfg.death_rate)
    /\ drew' = TRUE
    /\ event' = "error"
    /\ SetsUnchanged /\ InitialUnchanged /\ GsaUnchanged /\ TaxaUnchanged
    /\ UNCHANGED <<cfg, seed, nodes, parent, elen, attr, total_time,
                   targetted_time_slices, nextId, births, restarted, todo>>
    /\ DiscreteUnchanged
    /\ FitUnchanged

\* lines 246-281, common to every iteration that does not break
Advance(w) ==
    /\ pc = "loop"
    /\ ~ShouldBreak
    /\ rate_of_any_event > 0
    /\ ~BreaksAfterRecording
    /\ WithinTime(w)
    /\ targetted_time_slices' = SlicesAfter(w)
    /\ drew' = TRUE
    /\ UNCHANGED <<cfg, seed, gsa_r, selected, todo>>
    /\ InitialUnchanged /\ TaxaUnchanged
    /\ DiscreteUnchanged
    /\ FitUnchanged

\* the waiting time passes max_time: no event is realised
QuietStep ==
    \E w \in WaitingTimes :
        /\ Advance(w)
        /\ ~EventRealised(w)
        /\ elen' = LengthsAfter(w)
        /\ total_time' = total_time + w
        /\ brate' = RatesAfterDefault(brate, cfg.birth_rate)
        /\ drate' = RatesAfterDefault(drate, cfg.death_rate)
        /\ event' = "quiet"
        /\ SetsUnchanged
        /\ UNCHANGED <<pc, err, why, nodes, parent, attr, nextId, births, restarted>>

\* probability.weighted_choice: an event of positive weight is drawn
CanBeChosen(nd, birth_event) ==
    /\ nd \in extant_tips
    /\ IF birth_event THEN BirthRate(nd) > 0 ELSE DeathRate(nd) > 0

\* lines 291-303: nd splits into two children of edge length 0
NewChildRate(rate, nd, c1, c2, g1, g2, base) ==
    [RatesAfterDefault(rate, base) EXCEPT
        ![c1] = RatesAfterDefault(rate, base)[nd] + g1,
        ![c2] = RatesAfterDefault(rate, base)[nd] + g2]

BirthStep ==
    \E w \in WaitingTimes, nd \in extant_tips, g1 \in Gauss, g2 \in Gauss,
       g3 \in Gauss, g4 \in Gauss :
        /\ Advance(w)
        /\ EventRealised(w)
        /\ CanBeChosen(nd, TRUE)
        /\ nextId + 1 <= MaxNodes
        /\ LET c1 == nextId
               c2 == nextId + 1
           IN /\ nodes' = nodes \cup {c1, c2}
              /\ parent' = [parent EXCEPT ![c1] = nd, ![c2] = nd]
              /\ elen' = [LengthsAfter(w) EXCEPT ![c1] = 0, ![c2] = 0]
              /\ attr' = IF cfg.is_add_extinct_attr
                         THEN [attr EXCEPT ![nd] = "None"] ELSE attr
              /\ brate' = NewChildRate(brate, nd, c1, c2, g1, g3, cfg.birth_rate)
              /\ drate' = NewChildRate(drate, nd, c1, c2, g2, g4, cfg.death_rate)
              /\ extant_tips' = (extant_tips \ {nd}) \cup {c1, c2}
              /\ nextId' = nextId + 2
        /\ total_time' = total_time + w
        /\ births' = births + 1
        /\ event' = "birth"
        /\ UNCHANGED <<pc, err, why, extinct_tips, restarted>>

\* the dead lineage left out of extinct_tips
ExtinctAfterDeathDropped(nd) == extinct_tips

\* lines 305-306
ExtinctAfterDeath(nd) == extinct_tips \cup {nd}

\* the test passed by every death
OthersRemainAlways(nd) == TRUE

\* line 305, after nd has left extant_tips
OthersRemain(nd) == Card(extant_tips \ {nd}) > 0

\* lines 304-308: nd dies and other lineages remain
DeathStep ==
    \E w \in WaitingTimes, nd \in extant_tips :
        /\ Advance(w)
        /\ EventRealised(w)
        /\ CanBeChosen(nd, FALSE)
        /\ OthersRemain(nd)
        /\ extant_tips' = extant_tips \ {nd}
        /\ extinct_tips' = ExtinctAfterDeath(nd)
        /\ attr' = IF cfg.is_add_extinct_attr
                   THEN [attr EXCEPT ![nd] = "None"] ELSE attr
        /\ elen' = LengthsAfter(w)
        /\ total_time' = total_time + w
        /\ brate' = RatesAfterDefault(brate, cfg.birth_rate)
        /\ drate' = RatesAfterDefault(drate, cfg.death_rate)
        /\ event' = "death"
        /\ UNCHANGED <<pc, err, why, nodes, parent, nextId, births, restarted>>

\* the recorded slices never looked at
UsableSlicesIgnored(slices) == FALSE

\* lines 309-313
UsableSlices(slices) == cfg.gsa_ntax # None /\ Len(slices) > 0

\* the last extant lineage dies (lines 309-325): common part
LastDies(w, nd) ==
    /\ Advance(w)
    /\ EventRealised(w)
    /\ CanBeChosen(nd, FALSE)
    /\ ~OthersRemain(nd)
    /\ brate' = RatesAfterDefault(brate, cfg.birth_rate)
    /\ drate' = RatesAfterDefault(drate, cfg.death_rate)
    /\ event' = "total_extinction"

\* GSA mode with a recorded slice: the loop ends
ExtinctionBreak ==
    \E w \in WaitingTimes, nd \in extant_tips :
        /\ LastDies(w, nd)
        /\ UsableSlices(SlicesAfter(w))
        /\ pc' = AfterLoop
        /\ extant_tips' = extant_tips \ {nd}
        /\ elen' = LengthsAfter(w)
        /\ total_time' = total_time + w
        /\ UNCHANGED <<err, why, nodes, parent, attr, extinct_tips, nextId,
                       births, restarted>>

\* the exception raised without looking at the recorded slices
RaisesWheneverRetryIsOff(slices) == ~cfg.repeat_until_success

\* the exception raised on total extinction
RaisesOnExtinction(slices) ==
    /\ ~UsableSlices(slices)
    /\ ~cfg.repeat_until_success

ExtinctionRaise ==
    \E w \in WaitingTimes, nd \in extant_tips :
        /\ LastDies(w, nd)
        /\ RaisesOnExtinction(SlicesAfter(w))
        /\ pc' = "raised"
        /\ err' = "TreeSimTotalExtinctionException"
        /\ why' = "total_extinction"
        /\ extant_tips' = extant_tips \ {nd}
        /\ elen' = LengthsAfter(w)
        /\ total_time' = total_time + w
        /\ UNCHANGED <<nodes, parent, attr, extinct_tips, nextId, births, restarted>>

\* nodes a slice refers to
SliceNodes(slices) == UNION {DOMAIN slices[i].snap : i \in 1..Len(slices)}

\* lines 319-325: the sets go back to their initial value
RestartLengths(w) == LengthsAfter(w)

\* no initial extant node loses its children
ClearedOnRestartNone == {}

\* lines 322-324: nd.clear_child_nodes() for every initial extant node
ClearedOnRestart == UNION {Descendants(i) : i \in initial_extant_tip_set}

Restart ==
    \E w \in WaitingTimes, nd \in extant_tips :
        /\ LastDies(w, nd)
        /\ ~UsableSlices(SlicesAfter(w))
        /\ cfg.repeat_until_success
        /\ LET cleared == ClearedOnRestart
               kept == nodes \ cleared
           IN /\ nodes' = kept
              /\ parent' = [n \in Ids |-> IF n \in kept THEN parent[n] ELSE 0]
              /\ elen' = [n \in Ids |-> IF n \in kept THEN RestartLengths(w)[n] ELSE None]
              /\ attr' = [n \in Ids |->
                            IF n \in initial_extant_tip_set /\ cfg.is_add_extinct_attr
                            THEN "False"
                            ELSE IF n \in kept THEN attr[n] ELSE "absent"]
              /\ nextId' = Max(kept \cup SliceNodes(SlicesAfter(w))) + 1
        /\ extant_tips' = initial_extant_tip_set
        /\ extinct_tips' = initial_extinct_tip_set
        /\ total_time' = 0
        /\ births' = 0
        /\ restarted' = TRUE
        /\ UNCHANGED <<pc, err, why>>

\* ------------------------------------------------------- GSA finalization
RECURSIVE CumulativeDwell(_, _)
CumulativeDwell(slices, k) ==
    IF k = 0 THEN 0 ELSE slices[k].dwell + CumulativeDwell(slices, k - 1)

total_duration_at_target_n_tax == 
    CumulativeDwell(targetted_time_slices, Len(targetted_time_slices))

\* rng.random() * total_duration_at_target_n_tax, in whole time units
UniformDraws == IF total_duration_at_target_n_tax = 0 THEN {0}
                ELSE 0..(total_duration_at_target_n_tax - 1)

\* lines 332-336: r is decreased by every dwell, and every slice that finds
\* r below zero replaces the selection (0: selected_slice stays None)
SelectedSlice(slices, r) ==
    LET below == {k \in 1..Len(slices) : r - CumulativeDwell(slices, k) < 0}
    IN IF below = {} THEN 0 ELSE Max(below)

\* line 337
GsaAssertionFails ==
    /\ pc = "gsa"
    /\ \E r \in UniformDraws :
        /\ SelectedSlice(targetted_time_slices, r) = 0
        /\ gsa_r' = r
    /\ selected' = 0
    /\ pc' = "raised"
    /\ err' = "AssertionError"
    /\ why' = "selected_slice_is_None"
    /\ drew' = TRUE
    /\ TreeUnchanged /\ SetsUnchanged /\ InitialUnchanged /\ TaxaUnchanged
    /\ UNCHANGED <<cfg, total_time, targetted_time_slices, nextId, births,
                   restarted, event, todo>>
    /\ DiscreteUnchanged
    /\ FitUnchanged

\* only the children of the heads leave the sets
DiscardedChildrenOnly(heads) == UNION {Children(d) : d \in heads}

\* lines 343-349: the children of every head node and all their descendants
Discarded(heads) == UNION {Descendants(d) : d \in heads}

\* lines 338-355: the tree goes back to the selected slice
GsaFinalize ==
    /\ pc = "gsa"
    /\ \E r \in UniformDraws :
        LET k == SelectedSlice(targetted_time_slices, r)
            edges_at_slice == targetted_time_slices[k].snap
            last_waiting_time == targetted_time_slices[k].dwell
            heads == DOMAIN edges_at_slice
            discarded == Discarded(heads)
        IN /\ k # 0
           /\ gsa_r' = r
           /\ selected' = k
           /\ nodes' = nodes \ discarded
           /\ extant_tips' = (extant_tips \ discarded) \cup heads
           /\ extinct_tips' = (extinct_tips \ discarded) \ heads
           /\ attr' = [n \in Ids |-> IF n \in heads /\ cfg.is_add_extinct_attr
                                     THEN "False" ELSE attr[n]]
           /\ elen' = [n \in Ids |-> IF n \in heads
                                     THEN edges_at_slice[n] + last_waiting_time
                                     ELSE elen[n]]
           /\ todo' = ToPrune((extinct_tips \ discarded) \ heads)
    /\ pc' = "post"
    /\ drew' = TRUE
    /\ InitialUnchanged /\ TaxaUnchanged
    /\ UNCHANGED <<cfg, err, why, seed, parent, brate, drate, total_time,
                   targetted_time_slices, nextId, births, restarted, event>>
    /\ DiscreteUnchanged
    /\ FitUnchanged

\* --------------------------------------------------------- post-processing
\* lines 360-361: climb while the parent has this node as its only child
RECURSIVE TopOfLine(_)
TopOfLine(nd) ==
    IF parent[nd] # 0 /\ Card(Children(parent[nd])) = 1
    THEN TopOfLine(parent[nd]) ELSE nd

\* tree.prune_subtree(nd, suppress_unifurcations=False)
PruneSubtree(nd) == nodes \ ({nd} \cup Descendants(nd))

\* lines 358-363, for one extinct tip
PruneExtinctTip ==
    /\ pc = "post"
    /\ \E nd \in todo :
        /\ todo' = todo \ {nd}
        /\ IF Children(nd) # {}
           THEN /\ pc' = "raised"
                /\ err' = "AssertionError"
                /\ why' = "extinct_tip_has_children"
                /\ UNCHANGED nodes
           ELSE /\ nodes' = IF parent[TopOfLine(nd)] # 0
                            THEN PruneSubtree(TopOfLine(nd)) ELSE nodes
                /\ UNCHANGED <<pc, err, why>>
    /\ SetsUnchanged /\ InitialUnchanged /\ GsaUnchanged /\ TaxaUnchanged
    /\ UNCHANGED <<cfg, seed, parent, elen, attr, brate, drate, total_time,
                   targetted_time_slices, nextId, births, restarted, event, drew>>
    /\ DiscreteUnchanged
    /\ FitUnchanged

\* tree.suppress_unifurcations(): every node with exactly one child is
\* removed, its edge length passing to the child
Unifurcations == {nd \in nodes : Card(Children(nd)) = 1}

RECURSIVE SuppressedAbove(_)
\* the chain of unifurcations directly above nd
SuppressedAbove(nd) ==
    IF parent[nd] # 0 /\ parent[nd] \in Unifurcations
    THEN {parent[nd]} \cup SuppressedAbove(parent[nd]) ELSE {}

ParentAfterSuppress(nd) ==
    LET chain == SuppressedAbove(nd)
    IN IF chain = {} THEN parent[nd]
       ELSE parent[CHOOSE t \in chain : parent[t] \notin chain]

LengthAfterSuppress(nd) ==
    LET known == {n \in {nd} \cup SuppressedAbove(nd) : elen[n] # None}
    IN IF known = {} THEN None ELSE SumOver(elen, known)

SuppressUnifurcations ==
    /\ pc = "post"
    /\ todo = {}
    /\ LET kept == nodes \ Unifurcations
       IN /\ nodes' = kept
          /\ parent' = [n \in Ids |-> IF n \in kept THEN ParentAfterSuppress(n) ELSE parent[n]]
          /\ elen' = [n \in Ids |-> IF n \in kept THEN LengthAfterSuppress(n) ELSE elen[n]]
          /\ seed' = CHOOSE n \in kept : ParentAfterSuppress(n) = 0
    /\ pc' = "taxa"
    /\ SetsUnchanged /\ InitialUnchanged /\ GsaUnchanged /\ TaxaUnchanged
    /\ UNCHANGED <<cfg, err, why, attr, brate, drate, total_time,
                   targetted_time_slices, nextId, births, restarted, event,
                   drew, todo>>
    /\ DiscreteUnchanged
    /\ FitUnchanged

\* ------------------------------------------------------ assignment of taxa
\* the orders in which "for nd in node_pool" may visit a set
Orders(S) ==
    {f \in [1..Card(S) -> S] : \A i, j \in 1..Card(S) : f[i] = f[j] => i = j}

Range(f) == {f[i] : i \in DOMAIN f}

node_pool_labels == <<"T", "X">>

\* lines 373-378 for the nodes order[i], order[i+1], ... of one node pool;
\* st holds taxon_pool, the namespace and the taxa assigned so far
RECURSIVE AssignPool(_, _, _, _)
AssignPool(order, i, node_pool_idx, st) ==
    IF i > Len(order) THEN st
    ELSE LET from_pool == Len(st.pool) > 0
             label == IF from_pool THEN st.pool[Len(st.pool)]
                      ELSE <<node_pool_labels[node_pool_idx], i>>
         IN AssignPool(order, i + 1, node_pool_idx,
                [pool |-> IF from_pool THEN SubSeq(st.pool, 1, Len(st.pool) - 1)
                          ELSE st.pool,
                 ns |-> IF from_pool \/ label \in Range(st.ns) THEN st.ns
                        ELSE Append(st.ns, label),
                 tx |-> [st.tx EXCEPT ![order[i]] = label]])

\* lines 371-377: the extant tips, then the extinct tips, each visited in
\* the order the set yields its nodes
AssignedTaxa(extant_order, extinct_order) ==
    LET start == [pool |-> namespace, ns |-> namespace, tx |-> taxon]
        after_extant == AssignPool(extant_order, 1, 1, start)
    IN AssignPool(extinct_order, 1, 2, after_extant)

\* lines 366-378
AssignTaxa ==
    /\ pc = "taxa"
    /\ pc' = "done"
    /\ IF cfg.is_assign_extant_taxa \/ cfg.is_assign_extinct_taxa
       THEN \E extant_order \in Orders(extant_tips),
               extinct_order \in Orders(extinct_tips) :
                /\ taxon' = AssignedTaxa(extant_order, extinct_order).tx
                /\ namespace' = AssignedTaxa(extant_order, extinct_order).ns
       ELSE TaxaUnchanged
    /\ TreeUnchanged /\ SetsUnchanged /\ InitialUnchanged /\ GsaUnchanged
    /\ UNCHANGED <<cfg, err, why, total_time, targetted_time_slices, nextId,
                   births, restarted, event, drew, todo>>
    /\ DiscreteUnchanged
    /\ FitUnchanged

\* ---------------------------------------------------------------- Spec
Next ==
    \/ RaiseValueError
    \/ NewTree
    \/ GivenTree
    \/ LoopExit
    \/ ZeroRate
    \/ QuietStep
    \/ BirthStep
    \/ DeathStep
    \/ ExtinctionBreak
    \/ ExtinctionRaise
    \/ Restart
    \/ GsaAssertionFails
    \/ GsaFinalize
    \/ PruneExtinctTip
    \/ SuppressUnifurcations
    \/ AssignTaxa

Spec == Init /\ [][Next]_vars

\* ================================================================ claims
\* A call that passes neither "tree" nor "taxon_namespace".
OnNewTree == UnpoppedKwargs(cfg) = {}

Running == pc \in {"loop", "gsa", "post", "taxa", "done"}

\* Only num_extant_tips ends the run, birth_rate > 0 and death_rate = 0.
PureBirthToTarget ==
    /\ OnNewTree
    /\ cfg.birth_rate > 0 /\ cfg.death_rate = 0
    /\ cfg.num_extant_tips # None
    /\ cfg.num_extinct_tips = None /\ cfg.num_total_tips = None
    /\ cfg.max_time = None /\ cfg.gsa_ntax = None

\* C1: a pure-birth run on a new tree whose only termination condition is
\* num_extant_tips = N never restarts and never raises, has seen exactly N-1
\* births once the loop has ended, returns a tree of exactly N leaves, and
\* no edge length is negative.
C1_PureBirthReachesTarget ==
    PureBirthToTarget =>
        /\ ~restarted
        /\ err = "none"
        /\ births <= cfg.num_extant_tips - 1
        /\ pc \in {"post", "taxa", "done"} => births = cfg.num_extant_tips - 1
        /\ pc = "done" => Card(Leaves) = cfg.num_extant_tips
        /\ \A n \in nodes : elen[n] >= 0

C1_Witness ==
    /\ PureBirthToTarget
    /\ cfg.num_extant_tips = 3
    /\ pc = "done"
    /\ births = 2
    /\ Card(Leaves) = 3

\* C2 (as claimed): in GSA mode with gsa_ntax = num_extant_tips on a new
\* tree the call raises no assertion failure or other exception, and the
\* returned tree has exactly num_extant_tips tips.
GsaAtTarget ==
    /\ OnNewTree
    /\ cfg.gsa_ntax # None
    /\ cfg.gsa_ntax = cfg.num_extant_tips
    /\ ConfigurationError(cfg) = "ok"
    /\ cfg.birth_rate + cfg.death_rate > 0

C2_GsaAtTargetReturns ==
    GsaAtTarget =>
        /\ err \in {"none", "TreeSimTotalExtinctionException"}
        /\ pc = "done" => Card(Leaves) = cfg.num_extant_tips

\* C3 (as claimed): the slice selected by the GSA finalization is the first
\* slice whose cumulative dwell exceeds the uniform draw r.
FirstSliceExceeding(slices, r) ==
    LET above == {k \in 1..Len(slices) : CumulativeDwell(slices, k) > r}
    IN IF above = {} THEN 0 ELSE CHOOSE k \in above : \A j \in above : k <= j

C3_FirstExceedingSliceSelected ==
    (cfg.gsa_ntax # None /\ pc \in {"post", "taxa", "done"}) =>
        selected = FirstSliceExceeding(targetted_time_slices, gsa_r)

\* C4 (as claimed): with max_time configured and no GSA, at return the
\* elapsed time, and the root-to-tip path of every extant tip, is at most
\* max_time.
C4_ElapsedWithinMaxTime ==
    (OnNewTree /\ cfg.max_time # None /\ cfg.gsa_ntax = None /\ pc = "done") =>
        /\ total_time <= cfg.max_time
        /\ \A nd \in extant_tips : PathLength(nd) <= cfg.max_time

\* C5 (as claimed): in a pure-birth run on a new tree every extant tip is at
\* root-to-tip distance total_time, at every iteration and in the returned
\* tree.
PureBirthOnNewTree == OnNewTree /\ cfg.death_rate = 0 /\ cfg.birth_rate > 0

C5_PathEqualsTotalTimeAlways ==
    (PureBirthOnNewTree /\ Running) =>
        \A nd \in extant_tips : PathLength(nd) = total_time

\* C5 (amended): in a pure-birth run on a new tree every extant tip is at
\* root-to-tip distance total_time at every iteration of the main loop, and
\* in the tree a non-GSA run returns; the tips of the tree a GSA run returns
\* are all at one distance, which is at most total_time.
C5_PathEqualsTotalTime ==
    (PureBirthOnNewTree /\ Running) =>
        /\ (pc = "loop" \/ cfg.gsa_ntax = None) =>
                \A nd \in extant_tips : PathLength(nd) = total_time
        /\ pc = "done" =>
                /\ extant_tips = Leaves
                /\ \A a, b \in Leaves : PathLength(a) = PathLength(b)
                /\ \A a \in Leaves : PathLength(a) <= total_time

C5_Witness ==
    /\ PureBirthOnNewTree
    /\ cfg.gsa_ntax = None
    /\ pc = "done"
    /\ births = 2
    /\ \E a, b \in Leaves : elen[a] # elen[b]

\* C6 (as claimed): a call passing "tree" with a termination condition and
\* no other special keyword is not rejected as a configuration error.
PassesOnlyTree ==
    /\ cfg.tree.kind # "none"
    /\ HasTerminationCondition(cfg)
    /\ ~cfg.taxon_namespace
    /\ ~cfg.ignore_unrecognized_keyword_arguments

C6_GivenTreeAccepted ==
    PassesOnlyTree => err # "ValueError"

\* C7 (as claimed): for a caller-supplied tree the initialization ends
\* without error, the leaves whose extinction attribute is true in the
\* extinct set and every other leaf in the extant set.
C7_LeavesPartitionedByFlag ==
    (cfg.tree.kind # "none" /\ pc # "call" /\ err # "ValueError") =>
        /\ err # "AttributeError"
        /\ initial_extinct_tip_set =
                {nd \in GivenLeaves(cfg.tree) : Truthy(GivenFlag(cfg.tree, nd))}
        /\ initial_extant_tip_set =
                {nd \in GivenLeaves(cfg.tree) : ~Truthy(GivenFlag(cfg.tree, nd))}

\* The states of the main loop between two events, and the state in which
\* the loop is left.
InMainLoop ==
    \/ pc = "loop"
    \/ pc = "gsa"
    \/ pc = "post" /\ cfg.gsa_ntax = None /\ todo = ToPrune(extinct_tips)

TipsPartitionLeaves ==
    /\ extant_tips \cap extinct_tips = {}
    /\ extant_tips \cup extinct_tips = Leaves

LeftByExtinction == pc = "gsa" /\ event = "total_extinction"

\* C8 (as claimed): between two events of the main loop and at loop exit,
\* extant_tips and extinct_tips are disjoint and their union is the leaf set.
C8_LeavesPartitionedAlways ==
    InMainLoop => TipsPartitionLeaves

\* C8 (amended): the partition holds between two events of the main loop and
\* at loop exit, except when a GSA run leaves the loop on total extinction:
\* then extant_tips is empty and the lineage that died last is the one leaf
\* in neither set.
C8_LeavesPartitioned ==
    InMainLoop =>
        IF LeftByExtinction
        THEN /\ extant_tips = {}
             /\ extinct_tips \subseteq Leaves
             /\ Card(Leaves \ extinct_tips) = 1
        ELSE TipsPartitionLeaves

C8_Witness ==
    /\ pc = "loop"
    /\ restarted
    /\ extinct_tips # {}
    /\ Card(extant_tips) >= 2

\* C9 (as claimed): ValueError is raised in exactly the four listed cases,
\* before a tree exists and before the RNG is drawn from.
ListedConfigurationError(c) ==
    \/ ~HasTerminationCondition(c)
    \/ c.gsa_ntax # None /\ c.num_extant_tips = None
    \/ c.gsa_ntax # None /\ (c.num_extinct_tips # None \/ c.num_total_tips # None)
    \/ c.gsa_ntax # None /\ c.num_extant_tips # None /\ c.gsa_ntax < c.num_extant_tips

C9_ValueErrorExactlyWhenListed ==
    pc # "call" =>
        /\ (err = "ValueError") <=> ListedConfigurationError(cfg)
        /\ err = "ValueError" => (nodes = {} /\ ~drew)

\* C10: a step in which the last extant lineage dies raises
\* TreeSimTotalExtinctionException exactly when repeat_until_success is False
\* and there is no usable GSA slice (no GSA mode, or no slice recorded); with
\* GSA mode and a recorded slice it leaves the loop without raising, whatever
\* repeat_until_success is; and the exception is raised by no other step.
C10_ExtinctionException ==
    [][ LET last_dies == pc = "loop" /\ event' = "total_extinction"
            usable == cfg.gsa_ntax # None /\ Len(targetted_time_slices') > 0
            raised == err' = "TreeSimTotalExtinctionException"
        IN /\ last_dies =>
                /\ raised <=> (~cfg.repeat_until_success /\ ~usable)
                /\ usable => (pc' = "gsa" /\ err' = "none")
                /\ (~usable /\ cfg.repeat_until_success) => pc' = "loop"
           /\ raised => (last_dies /\ pc' = "raised" /\ extant_tips' = {}) ]_vars

C10_Witness ==
    /\ pc = "gsa"
    /\ event = "total_extinction"
    /\ ~cfg.repeat_until_success
    /\ err = "none"

\* C11: the step in which the last extant lineage dies with
\* repeat_until_success enabled and no usable GSA slice leaves extant_tips
\* and extinct_tips equal to the sets the run started with, total_time at 0
\* and every initial extant node without children, and the main loop goes on
\* from that state.
C11_RestartState ==
    [][ (/\ pc = "loop"
         /\ event' = "total_extinction"
         /\ cfg.repeat_until_success
         /\ ~(cfg.gsa_ntax # None /\ Len(targetted_time_slices') > 0))
        => /\ extant_tips' = initial_extant_tip_set
           /\ extinct_tips' = initial_extinct_tip_set
           /\ initial_extant_tip_set' = initial_extant_tip_set
           /\ initial_extinct_tip_set' = initial_extinct_tip_set
           /\ total_time' = 0
           /\ \A n \in initial_extant_tip_set :
                 /\ n \in nodes'
                 /\ {c \in nodes' : parent'[c] = n} = {}
           /\ pc' = "loop"
           /\ err' = "none" ]_vars

C11_Witness ==
    /\ pc = "loop"
    /\ event = "total_extinction"
    /\ restarted
    /\ cfg.tree.kind = "cherry"
    /\ extant_tips = {2, 3}
    /\ extinct_tips = {}
    /\ total_time = 0

\* A run on a new tree with birth_rate = 0, death_rate > 0 and
\* repeat_until_success = False.
SingleLineagePureDeath ==
    /\ OnNewTree
    /\ ConfigurationError(cfg) = "ok"
    /\ cfg.birth_rate = 0 /\ cfg.death_rate > 0
    /\ ~cfg.repeat_until_success

NoTargetMetAtStart ==
    /\ cfg.max_time = None
    /\ cfg.num_extant_tips = None \/ cfg.num_extant_tips >= 2
    /\ cfg.num_extinct_tips = None \/ cfg.num_extinct_tips >= 1
    /\ cfg.num_total_tips = None \/ cfg.num_total_tips >= 2

C13_ExtinctAttrIsBoolean ==
    (cfg.is_add_extinct_attr /\ cfg.is_retain_extinct_tips /\ pc = "done") =>
        /\ \A nd \in extinct_tips : attr[nd] = "True"
        /\ \A nd \in extant_tips : attr[nd] = "False"
        /\ \A nd \in nodes \ Leaves : attr[nd] # "True"

\* C14 (as claimed): with is_retain_extinct_tips = False the returned tree
\* holds no node of extinct_tips, every leaf of it is an extant tip, no node
\* of it is flagged extinct, and no node of it has exactly one child.
C14_NoExtinctNoUnifurcation ==
    (~cfg.is_retain_extinct_tips /\ pc \in {"taxa", "done"}) =>
        /\ nodes \cap extinct_tips = {}
        /\ Leaves = extant_tips
        /\ \A nd \in nodes : attr[nd] # "True"
        /\ Unifurcations = {}

\* C15 (as claimed): in the returned tree an extant tip has a taxon exactly
\* when is_assign_extant_taxa is True, and an extinct tip has a taxon only
\* when is_assign_extinct_taxa is True and extinct tips are retained.
C15_TaxaFollowFlags ==
    pc = "done" =>
        /\ \A nd \in extant_tips :
                (taxon[nd] # NoTaxon) <=> cfg.is_assign_extant_taxa
        /\ \A nd \in extinct_tips :
                (taxon[nd] # NoTaxon) =>
                    (cfg.is_assign_extinct_taxa /\ cfg.is_retain_extinct_tips)

\* A pure-birth run on a new tree with num_extant_tips = N >= 2.
PureBirthToAtLeastTwo ==
    /\ PureBirthOnNewTree
    /\ ConfigurationError(cfg) = "ok"
    /\ cfg.num_extant_tips # None /\ cfg.num_extant_tips >= 2

\* C16 (as claimed): in a pure-birth run on a new tree with num_extant_tips
\* = N >= 2 the extinct set is empty in every state and the root of the
\* returned tree has edge length 0, whatever is_retain_extinct_tips.
C16_RootLengthZero ==
    (PureBirthToAtLeastTwo /\ Running) =>
        /\ extinct_tips = {}
        /\ pc = "done" => elen[seed] = 0

\* C16 (amended): in such a run the extinct set is empty in every state,
\* whatever is_retain_extinct_tips; the root edge, created with length 0,
\* grows with every waiting time while the root is the only lineage, so
\* that it equals total_time up to the first birth and keeps that length,
\* the waiting time before the first birth, in the returned tree.
C16_RootLengthIsFirstWait ==
    (PureBirthToAtLeastTwo /\ Running) =>
        /\ extinct_tips = {}
        /\ seed = 1
        /\ births = 0 => elen[seed] = total_time
        /\ births >= 1 => (elen[seed] \in WaitingTimes /\ elen[seed] <= total_time)
        /\ (pc = "done" /\ births >= 1) => Card(Children(seed)) = 2

C16_Witness ==
    /\ PureBirthToAtLeastTwo
    /\ cfg.is_retain_extinct_tips
    /\ cfg.num_extant_tips = 3
    /\ pc = "done"
    /\ births = 2
    /\ elen[seed] = 2
    /\ extinct_tips = {}

\* A tip no other tip can be taken for: its edge length is its own.
ToldApart(nd) ==
    \A other \in (extant_tips \cup extinct_tips) \ {nd} : elen[other] # elen[nd]

\* C17 (as claimed): the returned tree is a function of the configuration
\* and of the RNG draws, whatever the order in which the extant and extinct
\* sets yield their nodes.  The assignment of taxa draws nothing from the
\* RNG, so from the state it starts in, on a new tree, every order of the
\* two sets gives a tip that can be told apart from the others the same
\* taxon.
C17_TaxaWhateverTheOrder ==
    (/\ OnNewTree
     /\ pc = "taxa"
     /\ cfg.is_assign_extant_taxa \/ cfg.is_assign_extinct_taxa) =>
        \A o1, o2 \in Orders(extant_tips), x1, x2 \in Orders(extinct_tips) :
            \A nd \in extant_tips \cap nodes :
                ToldApart(nd) =>
                    AssignedTaxa(o1, x1).tx[nd] = AssignedTaxa(o2, x2).tx[nd]

\* ==================================================================
\* discrete_birth_death_tree (dendropy/model/birthdeath.py, lines 383-516)
\*
\* One call is one behaviour of SpecDiscrete.  Every visit of a leaf by the
\* "for nd in leaf_nodes" loop is one step; the visit of the last leaf of a
\* generation also does the bookkeeping that ends the generation and
\* evaluates the loop condition.  Rates and uniform draws are counted in
\* units of 1/Grid.
\* ==================================================================
\* cfg.ntax, cfg.max_time: None when the keyword is not passed;
\* cfg.taxon_namespace: None, or the number of taxa of the namespace passed;
\* cfg.own_namespace: the namespace passed is tree.taxon_namespace
DiscreteDefaults ==
    [birth_rate |-> 1, death_rate |-> 0, ntax |-> None,
     taxon_namespace |-> None, max_time |-> None,
     repeat_until_success |-> FALSE,
     tree |-> [kind |-> "none", flags |-> <<>>], own_namespace |-> TRUE,
     assign_taxa |-> TRUE]

\* Calls on a new tree.
DiscreteNewTreeCalls ==
    {[DiscreteDefaults EXCEPT !.birth_rate = b, !.death_rate = d, !.ntax = n,
                              !.max_time = m, !.repeat_until_success = r] :
        b \in {0, 1, Grid}, d \in {0, 2}, n \in {None} \cup 2..MaxTips,
        m \in {None, 0, 2}, r \in BOOLEAN}

\* Calls that pass a namespace, a tree (a cherry with edge lengths), or
\* assign_taxa.
DiscreteKeywordCalls ==
    {[DiscreteDefaults EXCEPT !.death_rate = d, !.taxon_namespace = t,
                              !.max_time = m, !.tree = tr,
                              !.own_namespace = o, !.assign_taxa = a] :
        d \in {0, 2}, t \in {None, 2}, m \in {None, 0, 2},
        tr \in {[kind |-> "none", flags |-> <<>>],
                [kind |-> "cherry", flags |-> <<"absent", "absent">>]},
        o \in BOOLEAN, a \in BOOLEAN}

DiscreteCalls == DiscreteNewTreeCalls \cup DiscreteKeywordCalls

\* lines 439-446
target_num_taxa(c) ==
    IF c.taxon_namespace # None
    THEN (IF c.ntax # None THEN c.ntax ELSE c.taxon_namespace)
    ELSE c.ntax

target_num_gens(c) == c.max_time

\* lines 435-438 and 455-456 ("ok": the call is accepted)
DiscreteConfigurationError(c) ==
    IF c.ntax = None /\ c.taxon_namespace = None /\ c.max_time = None
    THEN "no_termination_condition"
    ELSE IF c.tree.kind # "none" /\ c.taxon_namespace # None /\ ~c.own_namespace
    THEN "tree_and_taxon_namespace"
    ELSE "ok"

InitDiscrete ==
    /\ cfg \in DiscreteCalls
    /\ pc = "call"
    /\ err = "none"
    /\ why = "none"
    /\ seed = 0
    /\ nodes = {}
    /\ parent = [n \in Ids |-> 0]
    /\ elen = [n \in Ids |-> None]
    /\ attr = [n \in Ids |-> "absent"]
    /\ brate = [n \in Ids |-> None]
    /\ drate = [n \in Ids |-> None]
    /\ extant_tips = {}
    /\ extinct_tips = {}
    /\ initial_extant_tip_set = {}
    /\ initial_extinct_tip_set = {}
    /\ total_time = 0
    /\ targetted_time_slices = <<>>
    /\ nextId = 1
    /\ births = 0
    /\ restarted = FALSE
    /\ event = "none"
    /\ drew = FALSE
    /\ gsa_r = 0
    /\ selected = 0
    /\ todo = {}
    /\ taxon = [n \in Ids |-> NoTaxon]
    /\ namespace = <<>>
    /\ leaf_nodes = {}
    /\ num_gens = 0
    /\ gens_to_add = 0
    /\ internal_node_ages = <<>>
    /\ smax = <<0, 0>>
    /\ lh = "none"

\* discrete_birth_death_tree keeps no tip sets, clock, slices or attribute
ContinuousUnchanged ==
    UNCHANGED <<attr, extant_tips, extinct_tips, initial_extant_tip_set,
                initial_extinct_tip_set, total_time, targetted_time_slices,
                gsa_r, selected, todo>>

\* the taxa of a namespace of n taxa
NamespaceOf(n) == [i \in 1..(IF n = None THEN 0 ELSE n) |-> <<"A", i>>]

DiscreteRaiseValueError ==
    /\ pc = "call"
    /\ DiscreteConfigurationError(cfg) # "ok"
    /\ pc' = "raised"
    /\ err' = "ValueError"
    /\ why' = DiscreteConfigurationError(cfg)
    /\ TreeUnchanged /\ TaxaUnchanged /\ ContinuousUnchanged /\ DiscreteUnchanged
    /\ UNCHANGED <<cfg, nextId, births, restarted, event, drew>>
    /\ FitUnchanged

\* tree.leaf_nodes() of the tree with nodes ns and parents par
LeavesOf(ns, par) == {n \in ns : ~\E c \in ns : par[c] = n}

\* lines 465-466: the condition of the main loop
WhileCondition(leaves, gens) ==
    /\ target_num_taxa(cfg) = None \/ Card(leaves) < target_num_taxa(cfg)
    /\ target_num_gens(cfg) = None \/ gens < target_num_gens(cfg)

\* lines 458-464
DiscreteNewTree ==
    /\ pc = "call"
    /\ DiscreteConfigurationError(cfg) = "ok"
    /\ cfg.tree.kind = "none"
    /\ seed' = 1
    /\ nodes' = {1}
    /\ elen' = [elen EXCEPT ![1] = 0]
    /\ brate' = [brate EXCEPT ![1] = cfg.birth_rate]
    /\ drate' = [drate EXCEPT ![1] = cfg.death_rate]
    /\ nextId' = 2
    /\ namespace' = NamespaceOf(cfg.taxon_namespace)
    /\ leaf_nodes' = {1}
    /\ num_gens' = 0
    /\ pc' = IF WhileCondition({1}, 0) THEN "for" ELSE "coda"
    /\ ContinuousUnchanged
    /\ UNCHANGED <<cfg, err, why, parent, births, restarted, event, drew,
                   taxon, gens_to_add>>
    /\ FitUnchanged

\* lines 453-456, 463-464: the caller's tree, its nodes without rates
DiscreteGivenTree ==
    /\ pc = "call"
    /\ DiscreteConfigurationError(cfg) = "ok"
    /\ cfg.tree.kind # "none"
    /\ seed' = 1
    /\ nodes' = GivenNodes(cfg.tree)
    /\ parent' = GivenParent(cfg.tree)
    /\ elen' = [n \in Ids |-> IF n \in GivenLeaves(cfg.tree) THEN 1 ELSE None]
    /\ nextId' = Max(GivenNodes(cfg.tree)) + 1
    /\ namespace' = NamespaceOf(cfg.taxon_namespace)
    /\ leaf_nodes' = GivenLeaves(cfg.tree)
    /\ num_gens' = 0
    /\ pc' = IF WhileCondition(GivenLeaves(cfg.tree), 0) THEN "for" ELSE "coda"
    /\ ContinuousUnchanged
    /\ UNCHANGED <<cfg, err, why, brate, drate, births, restarted, event,
                   drew, taxon, gens_to_add>>
    /\ FitUnchanged

\* lines 468-471: hasattr(nd, 'birth_rate')
LeafBirthRate(nd) == IF brate[nd] = None THEN cfg.birth_rate ELSE brate[nd]
LeafDeathRate(nd) == IF drate[nd] = None THEN cfg.death_rate ELSE drate[nd]

\* lines 472-475
OneMoreGeneration(l) == IF l = None THEN 1 ELSE l + 1

\* rng.uniform(0, 1)
UniformValues == 0..(Grid - 1)

\* line 477
IsBirth(nd, u) == u < LeafBirthRate(nd)

\* line 486
IsDeath(nd, u) ==
    /\ ~IsBirth(nd, u)
    /\ u > LeafBirthRate(nd)
    /\ u < LeafBirthRate(nd) + LeafDeathRate(nd)

\* lines 467-476: what every visit of a leaf does before the event
Visit(nd, u) ==
    /\ pc = "for"
    /\ nd \in leaf_nodes
    /\ OneMoreGeneration(elen[nd]) <= MaxTime
    /\ drew' = TRUE
    /\ ContinuousUnchanged /\ TaxaUnchanged
    /\ UNCHANGED <<cfg, births, gens_to_add>>
    /\ FitUnchanged

\* lines 494 and 496: "num_gens = 0" on extinction, then "num_gens += 1"
GenerationsAfter(gens, reset) == (IF reset THEN 0 ELSE gens) + 1

\* lines 465-467, 496-497: the next leaf of the generation, or after the
\* last one the counter, the new snapshot of the leaves and the loop condition
EndOfVisit(nd, reset, ns, par) ==
    LET rest == leaf_nodes \ {nd}
        gens == GenerationsAfter(num_gens, reset)
    IN IF rest # {}
       THEN /\ leaf_nodes' = rest
            /\ num_gens' = IF reset THEN 0 ELSE num_gens
            /\ pc' = "for"
       ELSE /\ leaf_nodes' = LeavesOf(ns, par)
            /\ num_gens' = gens
            /\ pc' = IF WhileCondition(LeavesOf(ns, par), gens)
                     THEN "for" ELSE "coda"

\* lines 477-485
DiscreteBirth ==
    \E nd \in leaf_nodes, u \in UniformValues, g1 \in Gauss, g2 \in Gauss,
       g3 \in Gauss, g4 \in Gauss :
        /\ Visit(nd, u)
        /\ IsBirth(nd, u)
        /\ nextId + 1 <= MaxNodes
        /\ LET c1 == nextId
               c2 == nextId + 1
           IN /\ nodes' = nodes \cup {c1, c2}
              /\ parent' = [parent EXCEPT ![c1] = nd, ![c2] = nd]
              /\ elen' = [elen EXCEPT ![nd] = OneMoreGeneration(elen[nd]),
                                      ![c1] = 0, ![c2] = 0]
              /\ brate' = [brate EXCEPT ![nd] = LeafBirthRate(nd),
                                        ![c1] = LeafBirthRate(nd) + g1,
                                        ![c2] = LeafBirthRate(nd) + g3]
              /\ drate' = [drate EXCEPT ![nd] = LeafDeathRate(nd),
                                        ![c1] = LeafDeathRate(nd) + g2,
                                        ![c2] = LeafDeathRate(nd) + g4]
              /\ nextId' = nextId + 2
              /\ EndOfVisit(nd, FALSE, nodes \cup {c1, c2},
                            [parent EXCEPT ![c1] = nd, ![c2] = nd])
        /\ event' = "birth"
        /\ UNCHANGED <<err, why, seed, restarted>>

\* tree.prune_subtree(nd): nd leaves the tree, and a parent left with one
\* child is suppressed, its edge length passing to that child
OnlySibling(nd) ==
    IF Card(Children(parent[nd]) \ {nd}) = 1
    THEN CHOOSE s \in Children(parent[nd]) \ {nd} : TRUE ELSE 0

NodesAfterPrune(nd) ==
    IF OnlySibling(nd) = 0 THEN nodes \ {nd} ELSE nodes \ {nd, parent[nd]}

ParentAfterPrune(nd) ==
    IF OnlySibling(nd) = 0 THEN [parent EXCEPT ![nd] = 0]
    ELSE [parent EXCEPT ![nd] = 0, ![parent[nd]] = 0,
                        ![OnlySibling(nd)] = parent[parent[nd]]]

LengthsAfterPrune(nd) ==
    LET p == parent[nd]
        s == OnlySibling(nd)
    IN IF s = 0 \/ elen[p] = None THEN elen
       ELSE [elen EXCEPT ![s] = IF elen[s] = None THEN elen[p]
                                ELSE elen[s] + elen[p]]

SeedAfterPrune(nd) ==
    IF OnlySibling(nd) # 0 /\ parent[nd] = seed THEN OnlySibling(nd) ELSE seed

\* lines 486-488: a leaf other than the seed node dies
DiscreteDeath ==
    \E nd \in leaf_nodes, u \in UniformValues :
        /\ Visit(nd, u)
        /\ IsDeath(nd, u)
        /\ nd # seed
        /\ nodes' = NodesAfterPrune(nd)
        /\ parent' = ParentAfterPrune(nd)
        /\ elen' = [LengthsAfterPrune(nd) EXCEPT ![nd] = OneMoreGeneration(elen[nd])]
        /\ seed' = SeedAfterPrune(nd)
        /\ brate' = [brate EXCEPT ![nd] = LeafBirthRate(nd)]
        /\ drate' = [drate EXCEPT ![nd] = LeafDeathRate(nd)]
        /\ EndOfVisit(nd, FALSE, NodesAfterPrune(nd), ParentAfterPrune(nd))
        /\ event' = "death"
        /\ UNCHANGED <<err, why, nextId, restarted>>

\* lines 489-491: the seed node dies and repeat_until_success is off
DiscreteExtinctionRaise ==
    \E nd \in leaf_nodes, u \in UniformValues :
        /\ Visit(nd, u)
        /\ IsDeath(nd, u)
        /\ nd = seed
        /\ ~cfg.repeat_until_success
        /\ pc' = "raised"
        /\ err' = "TreeSimTotalExtinctionException"
        /\ why' = "total_extinction"
        /\ elen' = [elen EXCEPT ![nd] = OneMoreGeneration(elen[nd])]
        /\ brate' = [brate EXCEPT ![nd] = LeafBirthRate(nd)]
        /\ drate' = [drate EXCEPT ![nd] = LeafDeathRate(nd)]
        /\ event' = "total_extinction"
        /\ UNCHANGED <<seed, nodes, parent, nextId, restarted, leaf_nodes,
                       num_gens>>

\* lines 492-494: the seed node dies and repeat_until_success is on
DiscreteExtinctionRepeat ==
    \E nd \in leaf_nodes, u \in UniformValues :
        /\ Visit(nd, u)
        /\ IsDeath(nd, u)
        /\ nd = seed
        /\ cfg.repeat_until_success
        /\ elen' = [elen EXCEPT ![nd] = OneMoreGeneration(elen[nd])]
        /\ brate' = [brate EXCEPT ![nd] = LeafBirthRate(nd)]
        /\ drate' = [drate EXCEPT ![nd] = LeafDeathRate(nd)]
        /\ EndOfVisit(nd, TRUE, nodes, parent)
        /\ event' = "total_extinction"
        /\ restarted' = TRUE
        /\ UNCHANGED <<err, why, seed, nodes, parent, nextId>>

\* neither branch of lines 477-494 is taken
DiscretePersist ==
    \E nd \in leaf_nodes, u \in UniformValues :
        /\ Visit(nd, u)
        /\ ~IsBirth(nd, u)
        /\ ~IsDeath(nd, u)
        /\ elen' = [elen EXCEPT ![nd] = OneMoreGeneration(elen[nd])]
        /\ brate' = [brate EXCEPT ![nd] = LeafBirthRate(nd)]
        /\ drate' = [drate EXCEPT ![nd] = LeafDeathRate(nd)]
        /\ EndOfVisit(nd, FALSE, nodes, parent)
        /\ event' = "quiet"
        /\ UNCHANGED <<err, why, seed, nodes, parent, nextId, restarted>>

\* line 504: the condition of the coda loop
CodaCondition == target_num_gens(cfg) = None \/ num_gens < target_num_gens(cfg)

\* line 506
CodaBreaks(u) == u < cfg.birth_rate + cfg.death_rate

\* lines 504-508: one more quiet generation is counted
CodaQuiet ==
    /\ pc = "coda"
    /\ CodaCondition
    /\ \E u \in UniformValues : ~CodaBreaks(u)
    /\ gens_to_add < MaxCoda
    /\ gens_to_add' = gens_to_add + 1
    /\ drew' = TRUE
    /\ event' = "coda"
    /\ TreeUnchanged /\ TaxaUnchanged /\ ContinuousUnchanged
    /\ UNCHANGED <<cfg, pc, err, why, nextId, births, restarted, leaf_nodes,
                   num_gens>>
    /\ FitUnchanged

\* tree.randomly_assign_taxa(create_required_taxa=True): the leaves get
\* distinct taxa of the namespace, new taxa being created when it has too few
RandomTaxa(leaves) ==
    LET created == {<<"new", k>> : k \in 1..(Card(leaves) - Len(namespace))}
        pool == Range(namespace) \cup created
    IN {f \in [leaves -> pool] : \A a, b \in leaves : f[a] = f[b] => a = b}

RECURSIVE CreatedTaxa(_, _)
CreatedTaxa(k, n) == IF k > n THEN <<>> ELSE <<<<"new", k>>>> \o CreatedTaxa(k + 1, n)

\* lines 504-516: the coda loop ends, the leaves grow by gens_to_add, taxa
\* are assigned and the tree is returned
DiscreteReturn ==
    /\ pc = "coda"
    /\ ~CodaCondition \/ \E u \in UniformValues : CodaBreaks(u)
    /\ pc' = "done"
    /\ elen' = [n \in Ids |-> IF n \in Leaves THEN elen[n] + gens_to_add
                              ELSE elen[n]]
    /\ drew' = (drew \/ CodaCondition \/ cfg.assign_taxa)
    /\ IF cfg.assign_taxa
       THEN /\ \E f \in RandomTaxa(Leaves) :
                 taxon' = [n \in Ids |-> IF n \in Leaves THEN f[n] ELSE taxon[n]]
            /\ namespace' = namespace \o
                    CreatedTaxa(1, Card(Leaves) - Len(namespace))
       ELSE TaxaUnchanged
    /\ ContinuousUnchanged /\ DiscreteUnchanged
    /\ UNCHANGED <<cfg, err, why, seed, nodes, parent, brate, drate, nextId,
                   births, restarted, event>>
    /\ FitUnchanged

NextDiscrete ==
    \/ DiscreteRaiseValueError
    \/ DiscreteNewTree
    \/ DiscreteGivenTree
    \/ DiscreteBirth
    \/ DiscreteDeath
    \/ DiscreteExtinctionRaise
    \/ DiscreteExtinctionRepeat
    \/ DiscretePersist
    \/ CodaQuiet
    \/ DiscreteReturn

SpecDiscrete == InitDiscrete /\ [][NextDiscrete]_vars

\* ------------------------------------------------ claims, SpecDiscrete
\* The main loop was left, or never entered, because the number of leaves
\* is not below the leaf-count target.
StoppedByLeafTarget ==
    /\ pc \in {"coda", "done"}
    /\ target_num_taxa(cfg) # None
    /\ Card(Leaves) >= target_num_taxa(cfg)

\* C18 (as claimed): when discrete_birth_death_tree stops because of its
\* leaf-count target (ntax, or len(taxon_namespace)), the tree has exactly
\* that number of tips.
C18_TipsEqualTarget ==
    StoppedByLeafTarget => Card(Leaves) = target_num_taxa(cfg)

\* C19 (as claimed): with max_time = G on a new tree and no extinction
\* retry, no root-to-tip path of the returned tree is longer than G
\* generations, coda included; with G = 0 no leaf is ever visited and the
\* returned tree is the seed node with edge length 0.
C19_PathWithinMaxTime ==
    (cfg.tree.kind = "none" /\ cfg.max_time # None /\ ~restarted) =>
        /\ pc = "done" => \A nd \in Leaves : PathLength(nd) <= cfg.max_time
        /\ (cfg.max_time = 0 /\ pc \in {"for", "coda", "done"}) =>
                /\ pc # "for"
                /\ event = "none"
                /\ nodes = {1}
                /\ elen[1] = 0

\* C20 (as claimed): the visit in which the seed node, the only lineage of the
\* tree, draws a death raises TreeSimTotalExtinctionException when
\* repeat_until_success is False; when it is True the tree keeps its
\* structure, the seed node its only leaf, and the generation counter is 0
\* when the next generation starts.
C20_ExtinctionOfSeed ==
    [][ (pc = "for" /\ event' = "total_extinction") =>
            IF ~cfg.repeat_until_success
            THEN pc' = "raised" /\ err' = "TreeSimTotalExtinctionException"
            ELSE /\ err' = "none"
                 /\ nodes' = nodes /\ parent' = parent /\ seed' = seed
                 /\ nodes' = {seed}
                 /\ leaf_nodes' = {seed}
                 /\ num_gens' = 0 ]_vars

\* ==================================================================
\* fit_pure_birth_model (dendropy/model/birthdeath.py, lines 544-691)
\*
\* One call is one behaviour of SpecFit: the keyword arguments are drawn in
\* InitFit, then the ages are resolved, the rate is estimated and the
\* log-likelihood is computed, in program order.  Ages are whole numbers;
\* the estimate is kept as the fraction the code divides out.
\* ==================================================================
RECURSIVE SeqsUpTo(_, _)
\* the sequences of at most n members of S
SeqsUpTo(S, n) ==
    IF n = 0 THEN {<<>>}
    ELSE SeqsUpTo(S, n - 1)
         \cup {Append(q, v) : q \in {r \in SeqsUpTo(S, n - 1) : Len(r) = n - 1},
                              v \in S}

AgeSeqs == SeqsUpTo(0..MaxAge, MaxAges)

\* The "tree" keyword: no tree, a tree that is not ultrametric, or an
\* ultrametric tree, known by the ages of its internal nodes.
FitTrees ==
    {[kind |-> "none", ages |-> <<>>],
     [kind |-> "not_ultrametric", ages |-> <<>>],
     [kind |-> "ultrametric", ages |-> <<1>>],
     [kind |-> "ultrametric", ages |-> <<1, 2>>]}

\* cfg.has_ages: the keyword "internal_node_ages" is passed
FitCalls ==
    {[tree |-> tr, has_ages |-> TRUE, internal_node_ages |-> a,
      ignore_likelihood_calculation_failure |-> i] :
        tr \in FitTrees, a \in AgeSeqs, i \in BOOLEAN}
    \cup {[tree |-> tr, has_ages |-> FALSE, internal_node_ages |-> <<>>,
           ignore_likelihood_calculation_failure |-> i] :
        tr \in FitTrees, i \in BOOLEAN}

InitFit ==
    /\ cfg \in FitCalls
    /\ pc = "call"
    /\ err = "none"
    /\ why = "none"
    /\ seed = 0
    /\ nodes = {}
    /\ parent = [n \in Ids |-> 0]
    /\ elen = [n \in Ids |-> None]
    /\ attr = [n \in Ids |-> "absent"]
    /\ brate = [n \in Ids |-> None]
    /\ drate = [n \in Ids |-> None]
    /\ extant_tips = {}
    /\ extinct_tips = {}
    /\ initial_extant_tip_set = {}
    /\ initial_extinct_tip_set = {}
    /\ total_time = 0
    /\ targetted_time_slices = <<>>
    /\ nextId = 1
    /\ births = 0
    /\ restarted = FALSE
    /\ event = "none"
    /\ drew = FALSE
    /\ gsa_r = 0
    /\ selected = 0
    /\ todo = {}
    /\ taxon = [n \in Ids |-> NoTaxon]
    /\ namespace = <<>>
    /\ leaf_nodes = {}
    /\ num_gens = 0
    /\ gens_to_add = 0
    /\ internal_node_ages = <<>>
    /\ smax = <<0, 0>>
    /\ lh = "none"

\* fit_pure_birth_model touches no tree
SimulatorsUnchanged ==
    /\ TreeUnchanged /\ TaxaUnchanged /\ ContinuousUnchanged /\ DiscreteUnchanged
    /\ UNCHANGED <<cfg, nextId, births, restarted, event, drew>>

\* lines 655-658: neither keyword is passed
FitMissingArgument ==
    /\ pc = "call"
    /\ cfg.tree.kind = "none"
    /\ ~cfg.has_ages
    /\ pc' = "raised"
    /\ err' = "TypeError"
    /\ why' = "need_tree_or_internal_node_ages"
    /\ FitUnchanged
    /\ SimulatorsUnchanged

\* line 653: tree.internal_node_ages() of a tree that is not ultrametric
FitNotUltrametric ==
    /\ pc = "call"
    /\ cfg.tree.kind = "not_ultrametric"
    /\ pc' = "raised"
    /\ err' = "UltrametricityError"
    /\ why' = "tree_not_ultrametric"
    /\ FitUnchanged
    /\ SimulatorsUnchanged

\* lines 651-656: the ages of the tree when a tree is passed, else the ages
\* passed
ResolvedAges(c) ==
    IF c.tree.kind # "none" THEN c.tree.ages ELSE c.internal_node_ages

FitResolveAges ==
    /\ pc = "call"
    /\ cfg.tree.kind = "ultrametric" \/ (cfg.tree.kind = "none" /\ cfg.has_ages)
    /\ internal_node_ages' = ResolvedAges(cfg)
    /\ pc' = "ages"
    /\ UNCHANGED <<err, why, smax, lh>>
    /\ SimulatorsUnchanged

\* occurrences of v in the sequence q
Count(q, v) == Card({i \in DOMAIN q : q[i] = v})

\* line 659: sorted(internal_node_ages, reverse=True)
SortedDescending(q) ==
    CHOOSE r \in [1..Len(q) -> Range(q)] :
        /\ \A v \in Range(q) : Count(r, v) = Count(q, v)
        /\ \A i \in 1..(Len(q) - 1) : r[i] >= r[i + 1]

RECURSIVE SumSeq(_, _, _)
\* q[from] + ... + q[to], the indexes beyond the sequence left out
SumSeq(q, from, to) ==
    IF from > to \/ from > Len(q) THEN 0 ELSE q[from] + SumSeq(q, from + 1, to)

\* line 662: nvec = range(2, len(x)+2), indexed from 1 here
nvec(idx) == idx + 1

\* lo with the ties of the largest age left out
loOfFirst(x) == nvec(1)

\* line 664 (st1 = x[0])
lo(x) == Max({nvec(idx) : idx \in {i \in DOMAIN x : x[i] >= x[1]}})

\* line 665 (st2 = 0)
up(x) == Max({nvec(idx) : idx \in {i \in DOMAIN x : x[i] >= 0}})

\* lines 663, 666-668: the largest age, then the ages below it
nv(x) == <<x[1]>> \o SelectSeq(x, LAMBDA a : a < x[1] /\ a >= 0)

\* lines 671-673
t1(x) == up(x) - lo(x)
t2(x) == lo(x) * nv(x)[1]
t3(x) == SumSeq(nv(x), 2, up(x) - lo(x) + 1)

\* line 660, x[0] of an empty list
FitNoAges ==
    /\ pc = "ages"
    /\ Len(internal_node_ages) = 0
    /\ pc' = "raised"
    /\ err' = "IndexError"
    /\ why' = "no_internal_node_ages"
    /\ FitUnchanged
    /\ SimulatorsUnchanged

\* line 674 with a denominator of 0
FitZeroDivision ==
    /\ pc = "ages"
    /\ Len(internal_node_ages) > 0
    /\ LET x == SortedDescending(internal_node_ages)
       IN t2(x) + t3(x) = 0
    /\ pc' = "raised"
    /\ err' = "ZeroDivisionError"
    /\ why' = "smax"
    /\ FitUnchanged
    /\ SimulatorsUnchanged

\* lines 659-674
FitEstimate ==
    /\ pc = "ages"
    /\ Len(internal_node_ages) > 0
    /\ LET x == SortedDescending(internal_node_ages)
       IN /\ t2(x) + t3(x) # 0
          /\ smax' = <<t1(x), t2(x) + t3(x)>>
    /\ pc' = "estimated"
    /\ UNCHANGED <<err, why, internal_node_ages, lh>>
    /\ SimulatorsUnchanged

\* math.log(smax) raises ValueError when smax is not above 0
LogFails == smax[1] * smax[2] <= 0

\* line 682: the branch of the handler that raises
RaisesOnFailure == cfg.ignore_likelihood_calculation_failure

\* lines 676-680, 687-691
FitLikelihood ==
    /\ pc = "estimated"
    /\ ~LogFails
    /\ lh' = "finite"
    /\ pc' = "done"
    /\ UNCHANGED <<err, why, internal_node_ages, smax>>
    /\ SimulatorsUnchanged

\* lines 681-683
FitFailureRaised ==
    /\ pc = "estimated"
    /\ LogFails
    /\ RaisesOnFailure
    /\ pc' = "raised"
    /\ err' = "ValueError"
    /\ why' = "likelihood_estimation_failure"
    /\ FitUnchanged
    /\ SimulatorsUnchanged

\* lines 684-685, 687-691
FitFailureAbsorbed ==
    /\ pc = "estimated"
    /\ LogFails
    /\ ~RaisesOnFailure
    /\ lh' = "-inf"
    /\ pc' = "done"
    /\ UNCHANGED <<err, why, internal_node_ages, smax>>
    /\ SimulatorsUnchanged

NextFit ==
    \/ FitMissingArgument
    \/ FitNotUltrametric
    \/ FitResolveAges
    \/ FitNoAges
    \/ FitZeroDivision
    \/ FitEstimate
    \/ FitLikelihood
    \/ FitFailureRaised
    \/ FitFailureAbsorbed

SpecFit == InitFit /\ [][NextFit]_vars

\* ---------------------------------------------------- claims, SpecFit
SuppliesTree == cfg.tree.kind # "none"

\* C21 (as claimed): a call supplying both "tree" and "internal_node_ages",
\* and a call supplying neither, is rejected with an error before anything
\* is computed; only the calls supplying exactly one are computed.
C21_ExactlyOneArgument ==
    (pc # "call" /\ (SuppliesTree <=> cfg.has_ages)) =>
        /\ pc = "raised"
        /\ internal_node_ages = <<>>

\* C22 (as claimed): when the logarithm of the estimated rate fails, the
\* call returns log_likelihood = -infinity if
\* ignore_likelihood_calculation_failure is True and raises ValueError if it
\* is False.
C22_FailureFollowsFlag ==
    (pc \in {"done", "raised"} /\ internal_node_ages # <<>> /\ smax[2] # 0
       /\ LogFails) =>
        IF cfg.ignore_likelihood_calculation_failure
        THEN pc = "done" /\ lh = "-inf" /\ err = "none"
        ELSE pc = "raised" /\ err = "ValueError"

\* the ages t_1 >= ... >= t_(n-1), and what the claimed estimate divides by
SortedAges == SortedDescending(internal_node_ages)
ClaimedDenominator == 2 * SortedAges[1] + SumSeq(SortedAges, 2, Len(SortedAges))
NumberOfTips == Len(internal_node_ages) + 1
TiesOfLargest == Count(internal_node_ages, SortedAges[1])

\* C23 (as claimed): for n-1 >= 1 non-negative ages the estimate returned is
\* (n-1) / (2*t_1 + t_2 + ... + t_(n-1)).
C23_EstimateIsClaimed ==
    (pc \in {"estimated", "done"} /\ Len(internal_node_ages) > 0) =>
        smax[1] * ClaimedDenominator = (NumberOfTips - 1) * smax[2]

\* C23 (amended): for n-1 >= 1 non-negative ages of which m equal the
\* largest age t_1, the estimate is (n-1-m) / (2*t_1 + t_2 + ... + t_(n-1)):
\* (n-2) over that sum when the largest age is unique, and 0 when all ages
\* tie; the call fails with ZeroDivisionError exactly when the sum is 0.
C23_EstimateCountsBelowLargest ==
    (pc \notin {"call", "ages"} /\ Len(internal_node_ages) > 0) =>
        IF ClaimedDenominator = 0
        THEN pc = "raised" /\ err = "ZeroDivisionError"
        ELSE /\ err \in {"none", "ValueError"}
             /\ smax = <<NumberOfTips - 1 - TiesOfLargest, ClaimedDenominator>>

C23_Witness ==
    /\ pc = "done"
    /\ Len(internal_node_ages) = 3
    /\ TiesOfLargest = 2
    /\ smax = <<1, 7>>
    /\ lh = "finite"

\* ------------------------------------------------ claims of the simulator
\* C24 (as claimed): a restart starts from scratch, so on a new tree every
\* extant tip is at root-to-tip distance total_time at every iteration of
\* the main loop of a run that has restarted.
C24_PathEqualsTotalTimeAfterRestart ==
    (OnNewTree /\ restarted /\ pc = "loop") =>
        \A nd \in extant_tips : PathLength(nd) = total_time

\* C25: the step of the GSA finalization leaves the head node of every edge
\* of the selected slice childless, in the extant set and out of the extinct
\* set, with the edge length of the snapshot plus the dwell of the slice;
\* the extant set is exactly these head nodes, num_extant_tips of them, all
\* at one root-to-tip distance; and no node below a head, which is a node
\* created after the slice was recorded, is left in either set.
C25_SliceRestored ==
    [][ (pc = "gsa" /\ pc' = "post") =>
            LET slice == targetted_time_slices[selected']
                heads == DOMAIN slice.snap
            IN /\ \A h \in heads :
                    /\ h \in nodes'
                    /\ {c \in nodes' : parent'[c] = h} = {}
                    /\ h \in extant_tips'
                    /\ h \notin extinct_tips'
                    /\ elen'[h] = slice.snap[h] + slice.dwell
               /\ extant_tips' = heads
               /\ Card(extant_tips') = cfg.num_extant_tips
               /\ \A a, b \in heads : PathLength(a)' = PathLength(b)'
               /\ \A n \in extant_tips' \cup extinct_tips' :
                    /\ n \in nodes'
                    /\ \A h \in heads : h \notin Ancestors(n) ]_vars

\* a finalized run that has thrown away nodes born after the selected slice
C25_Witness ==
    /\ pc = "post"
    /\ cfg.gsa_ntax = 3
    /\ cfg.num_extant_tips = 2
    /\ selected # 0
    /\ extant_tips = DOMAIN targetted_time_slices[selected].snap
    /\ Card(extant_tips) = 2
    /\ Max(nodes) < nextId - 1
    /\ extinct_tips # {}

C27_RatesEqualBase ==
    [][ cfg.tree.kind = "none" =>
            /\ \A n \in nodes' : /\ brate'[n] = cfg.birth_rate
                                 /\ drate'[n] = cfg.death_rate
            /\ \A n \in nodes \cap nodes' : /\ brate'[n] = brate[n]
                                            /\ drate'[n] = drate[n] ]_vars

\* a run with births and a restart behind it
C27_Witness ==
    /\ cfg.tree.kind = "none"
    /\ cfg.birth_rate = 1 /\ cfg.death_rate = 1
    /\ pc = "loop"
    /\ restarted
    /\ births >= 2
    /\ Card(nodes) >= 5
    /\ \A n \in nodes : brate[n] = 1 /\ drate[n] = 1

\* C28: in GSA mode the step that restarts the run after a total extinction
\* starts and ends with no recorded slice, and in every state of the main
\* loop every node whose edge a recorded slice refers to is a node of the
\* current tree.
C28_NoSliceAcrossRestart ==
    [][ (cfg.gsa_ntax # None /\ pc = "loop") =>
            /\ (event' = "total_extinction" /\ pc' = "loop") =>
                    /\ targetted_time_slices = <<>>
                    /\ targetted_time_slices' = <<>>
            /\ SliceNodes(targetted_time_slices') \subseteq nodes' ]_vars

\* a GSA run that restarted and recorded a slice in its new attempt
C28_Witness ==
    /\ cfg.gsa_ntax # None
    /\ pc = "loop"
    /\ restarted
    /\ Len(targetted_time_slices) >= 1
    /\ births >= 1
    /\ SliceNodes(targetted_time_slices) \subseteq nodes

\* C29: in a run without GSA on a new tree the extant set is not empty at
\* any termination check, after the loop and at return, and the returned
\* tree has an extant tip among its leaves; the step in which the last
\* extant lineage dies leaves that lineage out of the extinct set and ends
\* in a restart or in an exception.
C29_ExtantNeverEmpty ==
    [][ (OnNewTree /\ cfg.gsa_ntax = None) =>
            /\ pc' \in {"loop", "post", "taxa", "done"} =>
                    /\ extant_tips' # {}
                    /\ extant_tips' \subseteq nodes'
            /\ pc' = "done" => extant_tips' \cap Leaves' # {}
            /\ (pc = "loop" /\ event' = "total_extinction") =>
                    /\ extant_tips \cap extinct_tips' = {}
                    /\ pc' \in {"loop", "raised"}
                    /\ pc' = "loop" => restarted' ]_vars

\* a returned tree of a run in which lineages died, the last one included
C29_Witness ==
    /\ OnNewTree
    /\ cfg.gsa_ntax = None
    /\ cfg.death_rate = 1
    /\ pc = "done"
    /\ restarted
    /\ extinct_tips # {}
    /\ extant_tips # {}

\* C30 (as claimed): in the tree returned after the assignment of taxa no
\* two tips, extant or extinct, carry the same taxon, whatever the namespace
\* held at the call (stated for the calls that ask for taxa on both pools).
C30_NoTaxonOnTwoTips ==
    (/\ pc = "done"
     /\ cfg.tree.kind = "none"
     /\ cfg.is_assign_extant_taxa /\ cfg.is_assign_extinct_taxa) =>
        \A a, b \in (extant_tips \cup extinct_tips) \cap Leaves :
            (a # b /\ taxon[a] # NoTaxon) => taxon[a] # taxon[b]

\* C31 (as claimed): a GSA run with max_time configured never reaches a
\* state of the main loop in which the extant count is below gsa_ntax and
\* the elapsed time is past max_time, where no event is realised any more
\* and the loop would go round without end.
C31_EventsStayRealisable ==
    (/\ cfg.gsa_ntax # None
     /\ cfg.max_time # None
     /\ pc = "loop"
     /\ Card(extant_tips) < cfg.gsa_ntax) =>
        total_time <= cfg.max_time

====
